---- MODULE Spec2Model ----
(***************************************************************************)
(* A model of src/main.py: the Phone value object and its validation, the *)
(* Record of one contact (a name and an ordered list of Phone objects) and *)
(* the AddressBook (a UserDict from the name to the Record).               *)
(*                                                                         *)
(* A Python str is a sequence of one-character strings, so that len() and  *)
(* the scan of re.search are computed, not assumed.  A Python exception is *)
(* the pair (err, msg) of the last call: the exception class and the       *)
(* message template.  None is the empty sequence and an object x that may  *)
(* be None is <<x>>.                                                       *)
(***************************************************************************)
EXTENDS Integers, Sequences, FiniteSets, TLC

\* ------------------------------------------------------------------ bounds
\* The longest phone list the single Record of RecordSpec is grown to.
MaxPhones == 3
\* The longest phone list a Record of the AddressBook of Spec is grown to.
MaxBookPhones == 2
\* The longest string handed to the Phone constructor in PhoneSpec.
MaxStrLen == 11

\* ------------------------------------------------------------- input sets
Digits == {"0", "1", "2", "3", "4", "5", "6", "7", "8", "9"}
\* The characters the strings of PhoneSpec are built from.
Alphabet == {"7", "-"}

P1 == <<"1", "2", "3", "4", "5", "6", "7", "8", "9", "0">>
P2 == <<"5", "5", "5", "5", "5", "5", "5", "5", "5", "5">>
P3 == <<"1", "1", "1", "2", "2", "2", "3", "3", "3", "3">>
\* Ten characters, not all digits: a phone written with separators.
Bad == <<"5", "5", "5", "-", "5", "5", "5", "-", "5", "5">>

\* The phone strings the callers of a single Record pass.
PhoneInputs == {P1, P2, P3, Bad}
\* The phone strings the callers pass to the Records of an AddressBook.
BookPhoneInputs == {P1, Bad}
Names == {"John", "Jane"}
\* The Record objects a caller may construct: an object's identity.
Recs == {"r1", "r2"}

\* ------------------------------------------------------------ Python values
None == <<>>
Some(x) == <<x>>
\* Python truthiness of "an object or None": the classes of main.py define
\* neither __bool__ nor __len__, so every object is true and None is false.
Truthy(x) == x # None
\* A Record object that has not been constructed yet.
Unborn == [name |-> "", phones |-> <<>>, born |-> FALSE]
NoErr == ""

VARIABLES records, data, last

vars == <<records, data, last>>

\* The outcome of a call: op, the Record it was called on, its arguments,
\* the exception it raised (err, msg) and what it returned.  after names the
\* call this one directly follows, where a call records it.
CallAfter(op, rec, name, a1, a2, err, msg, ret, after) ==
  [op |-> op, rec |-> rec, name |-> name, a1 |-> a1, a2 |-> a2,
   err |-> err, msg |-> msg, ret |-> ret, after |-> after]

Call(op, rec, name, a1, a2, err, msg, ret) ==
  CallAfter(op, rec, name, a1, a2, err, msg, ret, "")

\* ------------------------------------------------------------------- Phone
\* re.search('\d+', phone): the first maximal run of digits, "" without one.
FirstDigitRun(phone) ==
  LET starts == {i \in 1..Len(phone) : phone[i] \in Digits}
  IN  IF starts = {} THEN <<>>
      ELSE LET s == CHOOSE i \in starts : \A j \in starts : i <= j
               stops == {k \in s..Len(phone) :
                           k = Len(phone) \/ phone[k + 1] \notin Digits}
               e == CHOOSE k \in stops : \A j \in stops : k <= j
           IN  SubSeq(phone, s, e)

PhoneLen == 10

\* Phone.__init__ without the comparison of the length with 10.
PhoneRaises_no_length(phone) ==
  Len(FirstDigitRun(phone)) # Len(phone)

\* Phone.__init__ raises ValueError.
PhoneRaises(phone) ==
  LET numbers == FirstDigitRun(phone)
      phone_number_len == Len(phone)
  IN  phone_number_len # PhoneLen \/ Len(numbers) # phone_number_len

\* The Phone object Phone.__init__ builds when it does not raise.
Phone(phone) == [value |-> phone]

\* ------------------------------------------------------------------ Record
\* Record.__init__: the name and an empty phone list.
RecordInit(name) == [name |-> name, phones |-> <<>>, born |-> TRUE]

\* get_phone_by_number returning the last match instead of the first.
get_phone_by_number_last(phones, phone_num) ==
  LET hits == {i \in 1..Len(phones) : phones[i].value = phone_num}
  IN  IF hits = {} THEN [phone |-> <<>>, idx |-> <<>>]
      ELSE LET i == CHOOSE i \in hits : \A j \in hits : i >= j
           IN  [phone |-> <<[at |-> i, value |-> phones[i].value]>>,
                idx |-> <<i>>]

\* Record.get_phone_by_number: the first Phone whose value is phone_num and
\* its index (counted from 1 here, from 0 in Python), or (None, None).  The
\* Phone object is named by the position it is stored at: add_phone builds a
\* new object for every element and nothing else inserts one, so no two
\* positions hold the same object.
get_phone_by_number(phones, phone_num) ==
  LET hits == {i \in 1..Len(phones) : phones[i].value = phone_num}
  IN  IF hits = {} THEN [phone |-> None, idx |-> None]
      ELSE LET i == CHOOSE i \in hits : \A j \in hits : i <= j
           IN  [phone |-> Some([at |-> i, value |-> phones[i].value]),
                idx |-> Some(i)]

\* The outcome of a method on the phone list: the list afterwards and the
\* exception raised, if any.
Outcome(phones, err, msg) == [phones |-> phones, err |-> err, msg |-> msg]

\* Record.add_phone: Phone(phone_num) raises before append is reached.
add_phone_outcome(phones, phone_num) ==
  IF PhoneRaises(phone_num)
  THEN Outcome(phones, "ValueError", "phone_format")
  ELSE Outcome(Append(phones, Phone(phone_num)), NoErr, "")

\* edit_phone overwriting every phone equal to old_phone.
edit_phone_outcome_all(phones, old_phone, new_phone) ==
  IF \E i \in 1..Len(phones) : phones[i].value = old_phone
  THEN Outcome([i \in 1..Len(phones) |->
                  IF phones[i].value = old_phone
                  THEN [value |-> new_phone] ELSE phones[i]], NoErr, "")
  ELSE Outcome(phones, "ValueError", "phone_not_found")

\* edit_phone constructing Phone(new_phone) before it looks old_phone up.
edit_phone_outcome_validate_first(phones, old_phone, new_phone) ==
  IF PhoneRaises(new_phone)
  THEN Outcome(phones, "ValueError", "phone_format")
  ELSE LET found == get_phone_by_number(phones, old_phone)
       IN  IF Truthy(found.phone)
           THEN Outcome([phones EXCEPT ![found.idx[1]].value = new_phone],
                        NoErr, "")
           ELSE Outcome(phones, "ValueError", "phone_not_found")

\* Record.edit_phone: the value of the found Phone is assigned; no Phone is
\* constructed from new_phone.
edit_phone_outcome(phones, old_phone, new_phone) ==
  LET found == get_phone_by_number(phones, old_phone)
  IN  IF Truthy(found.phone)
      THEN Outcome([phones EXCEPT ![found.idx[1]].value = new_phone], NoErr, "")
      ELSE Outcome(phones, "ValueError", "phone_not_found")

\* list.pop taking None for its default, the last element.
list_pop_default(phones, idx) ==
  IF Len(phones) = 0
  THEN Outcome(phones, "IndexError", "pop_from_empty_list")
  ELSE LET at == IF idx = <<>> THEN Len(phones) ELSE idx[1]
       IN  Outcome([i \in 1..(Len(phones) - 1) |->
                      IF i < at THEN phones[i] ELSE phones[i + 1]], NoErr, "")

\* list.pop(idx): an index that is None is no integer and raises TypeError
\* before the list is touched.
list_pop(phones, idx) ==
  IF idx = None
  THEN Outcome(phones, "TypeError", "not_an_integer")
  ELSE Outcome([i \in 1..(Len(phones) - 1) |->
                   IF i < idx[1] THEN phones[i] ELSE phones[i + 1]], NoErr, "")

\* remove_phone dropping every phone equal to phone_num.
remove_phone_outcome_all(phones, phone_num) ==
  IF \E i \in 1..Len(phones) : phones[i].value = phone_num
  THEN Outcome(SelectSeq(phones, LAMBDA p : p.value # phone_num), NoErr, "")
  ELSE Outcome(phones, "TypeError", "not_an_integer")

\* Record.remove_phone.
remove_phone_outcome(phones, phone_num) ==
  LET found == get_phone_by_number(phones, phone_num)
  IN  list_pop(phones, found.idx)

\* Record.find_phone: the found Phone or None.
find_phone_result(phones, phone_num) ==
  get_phone_by_number(phones, phone_num).phone

\* ------------------------------------------------------------- AddressBook
\* add_record storing the Record before it looks the name up.
add_record_outcome_overwrite(d, r, name) ==
  [data |-> [k \in DOMAIN d \cup {name} |-> IF k = name THEN r ELSE d[k]],
   err |-> IF name \in DOMAIN d THEN "RecordAlreadyExistsException" ELSE "",
   msg |-> IF name \in DOMAIN d THEN "record_exists" ELSE ""]

\* add_record keyed by the Record object, not by the value of its name.
add_record_outcome_by_object(d, r, name) ==
  IF r \notin DOMAIN d
  THEN [data |-> [k \in DOMAIN d \cup {r} |-> IF k = r THEN r ELSE d[k]],
        err |-> "", msg |-> ""]
  ELSE [data |-> d, err |-> "RecordAlreadyExistsException",
        msg |-> "record_exists"]

\* AddressBook.add_record: data afterwards and the exception raised.
add_record_outcome(d, r, name) ==
  IF name \notin DOMAIN d
  THEN [data |-> [k \in DOMAIN d \cup {name} |-> IF k = name THEN r ELSE d[k]],
        err |-> NoErr, msg |-> ""]
  ELSE [data |-> d, err |-> "RecordAlreadyExistsException",
        msg |-> "record_exists"]

\* AddressBook.find: self.data.get(name).
find_result(d, name) == IF name \in DOMAIN d THEN Some(d[name]) ELSE None

\* delete emptying the book when the name is found.
delete_outcome_clear(d, name) ==
  IF name \in DOMAIN d THEN <<>> ELSE d

\* AddressBook.delete: data afterwards.
delete_outcome(d, name) ==
  IF Truthy(find_result(d, name))
  THEN [k \in DOMAIN d \ {name} |-> d[k]]
  ELSE d

\* ----------------------------------------------------------------- actions
NoArg == <<>>

\* Phone(s), called directly.
NewPhone(s) ==
  /\ last' = IF PhoneRaises(s)
             THEN Call("Phone", "", "", s, NoArg, "ValueError", "phone_format", None)
             ELSE Call("Phone", "", "", s, NoArg, NoErr, "", Some(Phone(s)))
  /\ UNCHANGED <<records, data>>

\* Record(name).
NewRecord(r, name) ==
  /\ ~records[r].born
  /\ records' = [records EXCEPT ![r] = RecordInit(name)]
  /\ last' = Call("Record", r, name, NoArg, NoArg, NoErr, "", None)
  /\ UNCHANGED data

add_phone(r, phone_num) ==
  /\ records[r].born
  /\ LET out == add_phone_outcome(records[r].phones, phone_num)
     IN  /\ records' = [records EXCEPT ![r].phones = out.phones]
         /\ last' = Call("add_phone", r, "", phone_num, NoArg, out.err, out.msg, None)
  /\ UNCHANGED data

edit_phone(r, old_phone, new_phone) ==
  /\ records[r].born
  /\ LET out == edit_phone_outcome(records[r].phones, old_phone, new_phone)
     IN  /\ records' = [records EXCEPT ![r].phones = out.phones]
         /\ last' = Call("edit_phone", r, "", old_phone, new_phone, out.err, out.msg, None)
  /\ UNCHANGED data

remove_phone(r, phone_num) ==
  /\ records[r].born
  /\ LET out == remove_phone_outcome(records[r].phones, phone_num)
     IN  /\ records' = [records EXCEPT ![r].phones = out.phones]
         /\ last' = CallAfter("remove_phone", r, "", phone_num, NoArg,
                              out.err, out.msg, None,
                              IF /\ last.op = "add_phone" /\ last.err = NoErr
                                 /\ last.rec = r /\ last.a1 = phone_num
                              THEN "add_phone" ELSE "")
  /\ UNCHANGED data

find_phone(r, phone_num) ==
  /\ records[r].born
  /\ last' = Call("find_phone", r, "", phone_num, NoArg, NoErr, "",
                  find_phone_result(records[r].phones, phone_num))
  /\ UNCHANGED <<records, data>>

add_record(r) ==
  /\ records[r].born
  /\ LET out == add_record_outcome(data, r, records[r].name)
     IN  /\ data' = out.data
         /\ last' = Call("add_record", r, records[r].name, NoArg, NoArg,
                         out.err, out.msg, None)
  /\ UNCHANGED records

find(name) ==
  /\ last' = Call("find", "", name, NoArg, NoArg, NoErr, "", find_result(data, name))
  /\ UNCHANGED <<records, data>>

delete(name) ==
  /\ data' = delete_outcome(data, name)
  /\ last' = CallAfter("delete", "", name, NoArg, NoArg, NoErr, "", None,
                        IF /\ last.op = "add_record" /\ last.err = NoErr
                           /\ last.name = name
                        THEN "add_record" ELSE "")
  /\ UNCHANGED records

\* ---------------------------------------------------------- specifications
Init ==
  /\ records = [r \in Recs |-> Unborn]
  /\ data = <<>>
  /\ last = Call("", "", "", NoArg, NoArg, NoErr, "", None)

\* An AddressBook and the Records of its callers.
Next ==
  \/ \E r \in Recs, name \in Names : NewRecord(r, name)
  \/ \E r \in Recs, s \in BookPhoneInputs :
       Len(records[r].phones) < MaxBookPhones /\ add_phone(r, s)
  \/ \E r \in Recs, old \in BookPhoneInputs, new \in BookPhoneInputs :
       edit_phone(r, old, new)
  \/ \E r \in Recs, s \in BookPhoneInputs : remove_phone(r, s)
  \/ \E r \in Recs, s \in BookPhoneInputs : find_phone(r, s)
  \/ \E r \in Recs : add_record(r)
  \/ \E name \in Names : find(name)
  \/ \E name \in Names : delete(name)

Spec == Init /\ [][Next]_vars

\* One Record and the calls on its phone list.
RecordNext ==
  \/ \E name \in Names : NewRecord("r1", name)
  \/ \E s \in PhoneInputs :
       Len(records["r1"].phones) < MaxPhones /\ add_phone("r1", s)
  \/ \E old \in PhoneInputs, new \in PhoneInputs : edit_phone("r1", old, new)
  \/ \E s \in PhoneInputs : remove_phone("r1", s)
  \/ \E s \in PhoneInputs : find_phone("r1", s)

RecordSpec == Init /\ [][RecordNext]_vars

\* The strings of at most MaxStrLen characters over Alphabet.
Strings == UNION {[1..n -> Alphabet] : n \in 0..MaxStrLen}

\* A caller about to construct a Phone from a string of Strings.
PhoneInit ==
  /\ records = [r \in Recs |-> Unborn]
  /\ data = <<>>
  /\ \E s \in Strings : last = Call("", "", "", s, NoArg, NoErr, "", None)

\* The Phone constructor on the string the caller holds.
PhoneNext == last.op = "" /\ NewPhone(last.a1)

PhoneSpec == PhoneInit /\ [][PhoneNext]_vars

\* ------------------------------------------------------------------ claims
\* What the specification calls a valid phone: ten characters, all digits.
ValidPhone(s) == Len(s) = 10 /\ \A i \in 1..Len(s) : s[i] \in Digits

\* The values of a phone list, in order.
Values(phones) == [i \in 1..Len(phones) |-> phones[i].value]
Holds(phones, v) == \E i \in 1..Len(phones) : phones[i].value = v
\* The first position of a phone list holding v (v is held).
FirstAt(phones, v) ==
  CHOOSE i \in 1..Len(phones) :
    phones[i].value = v /\ \A j \in 1..(i - 1) : phones[j].value # v

\* The phone list of the Record the step's call is on, before and after it.
Pre == records[last'.rec].phones
Post == records'[last'.rec].phones

\* C1: every value stored in a Record's phone list is a string of exactly
\* ten decimal digits, whatever add_phone, edit_phone and remove_phone calls
\* were made.
C1_StoredPhonesValid ==
  \A r \in Recs : \A i \in 1..Len(records[r].phones) :
    ValidPhone(records[r].phones[i].value)

\* C2: Phone(s) succeeds if and only if s has exactly ten characters, all of
\* them digits; then the stored value is s unchanged, and otherwise the
\* constructor raises the validation error and produces no Phone.
C2_PhoneConstruction ==
  last.op = "Phone" =>
    IF ValidPhone(last.a1)
    THEN last.err = NoErr /\ last.ret = Some([value |-> last.a1])
    ELSE last.err = "ValueError" /\ last.msg = "phone_format" /\ last.ret = None

\* A Phone was constructed from a string of ten digits.
C2_Witness ==
  /\ last.op = "Phone" /\ last.err = NoErr
  /\ Len(last.a1) = 10 /\ last.ret = Some([value |-> last.a1])

\* C3, as stated: after edit_phone(old, new) with old present and new valid,
\* find_phone(new) returns the phone at the edited position and
\* find_phone(old) returns None, for every phone list.
C3_EditThenFind ==
  [][(/\ last'.op = "edit_phone"
      /\ Holds(Pre, last'.a1)
      /\ ValidPhone(last'.a2))
     => /\ find_phone_result(Post, last'.a2)
             = Some([at |-> FirstAt(Pre, last'.a1), value |-> last'.a2])
        /\ find_phone_result(Post, last'.a1) = None]_vars

\* C3, amended: after edit_phone(old, new) with old present and new valid,
\* find_phone(new) returns a phone whose value is new, which is the one at
\* the edited position exactly when no earlier position held new, and
\* find_phone(old) returns None exactly when old # new and the list held old
\* only once.
C3_EditThenFindFirst ==
  [][(/\ last'.op = "edit_phone"
      /\ Holds(Pre, last'.a1)
      /\ ValidPhone(last'.a2))
     => LET i == FirstAt(Pre, last'.a1)
            got == find_phone_result(Post, last'.a2)
        IN  /\ last'.err = NoErr
            /\ got # None
            /\ got[1].value = last'.a2
            /\ (got[1].at = i) <=>
                 (\A j \in 1..(i - 1) : Pre[j].value # last'.a2)
            /\ (find_phone_result(Post, last'.a1) = None) <=>
                 (/\ last'.a1 # last'.a2
                  /\ \A j \in 1..Len(Pre) : j # i => Pre[j].value # last'.a1)]_vars

\* edit_phone replaced a phone by another valid one that is then found, and
\* the old one is found no more.
C3_Witness ==
  /\ last.op = "edit_phone" /\ last.err = NoErr
  /\ ValidPhone(last.a2) /\ last.a1 # last.a2
  /\ Len(records[last.rec].phones) = 2
  /\ find_phone_result(records[last.rec].phones, last.a2)
       = Some([at |-> 2, value |-> last.a2])
  /\ find_phone_result(records[last.rec].phones, last.a1) = None

\* A remove_phone(v) step that directly follows a successful add_phone(v) on
\* the same Record.
RemoveAfterAdd ==
  /\ last.op = "add_phone" /\ last.err = NoErr
  /\ last'.op = "remove_phone"
  /\ last'.rec = last.rec /\ last'.a1 = last.a1

\* C4, as stated: remove_phone(v) after add_phone(v) leaves v not found by
\* find_phone(v) and the list one shorter than before remove_phone, also
\* when v was in the list before add_phone.
C4_RemoveAfterAdd ==
  [][RemoveAfterAdd
     => /\ find_phone_result(Post, last'.a1) = None
        /\ Len(Post) = Len(Pre) - 1]_vars

\* C4, amended: remove_phone(v) after add_phone(v) raises nothing and leaves
\* the list one shorter than before remove_phone; v is then not found by
\* find_phone(v) exactly when v was not in the list before add_phone.
C4_RemoveAfterAddOnce ==
  [][RemoveAfterAdd
     => /\ last'.err = NoErr
        /\ last'.after = "add_phone"
        /\ Len(Post) = Len(Pre) - 1
        /\ (find_phone_result(Post, last'.a1) = None) <=>
             ~Holds(SubSeq(Pre, 1, Len(Pre) - 1), last'.a1)]_vars

\* remove_phone(v) directly after add_phone(v) left another phone and no v.
C4_Witness ==
  /\ last.op = "remove_phone" /\ last.after = "add_phone"
  /\ last.err = NoErr /\ ValidPhone(last.a1)
  /\ Len(records[last.rec].phones) > 0
  /\ find_phone_result(records[last.rec].phones, last.a1) = None

\* C5: add_record of a Record whose name is already a key raises
\* RecordAlreadyExistsException, which is not the validation error, and
\* leaves the key set, the Record stored under the name and every phone
\* list as they were.
C5_AddExistingRecord ==
  [][(/\ last'.op = "add_record"
      /\ records[last'.rec].name \in DOMAIN data)
     => /\ last'.err = "RecordAlreadyExistsException"
        /\ last'.err # "ValueError"
        /\ DOMAIN data' = DOMAIN data
        /\ data'[last'.name] = data[last'.name]
        /\ data' = data
        /\ records' = records]_vars

\* add_record of a second Record of the same name was refused, and the
\* Record stored first, with a phone, is still the one under the name.
C5_Witness ==
  /\ last.op = "add_record" /\ last.err = "RecordAlreadyExistsException"
  /\ last.name \in DOMAIN data
  /\ data[last.name] # last.rec
  /\ records[last.rec].name = last.name
  /\ Len(records[data[last.name]].phones) > 0

\* C6: edit_phone(old, new) on a Record that holds no phone equal to old
\* raises the not-found error for every new, valid or not, and leaves the
\* phone list as it was.
C6_EditAbsent ==
  [][(/\ last'.op = "edit_phone"
      /\ ~Holds(Pre, last'.a1))
     => /\ last'.err = "ValueError"
        /\ last'.msg = "phone_not_found"
        /\ Post = Pre]_vars

\* edit_phone with an old phone the list lacks and an invalid new one was
\* refused as not found, on a list that is not empty.
C6_Witness ==
  /\ last.op = "edit_phone" /\ last.msg = "phone_not_found"
  /\ ~ValidPhone(last.a2)
  /\ Len(records[last.rec].phones) > 0
  /\ ~Holds(records[last.rec].phones, last.a1)

\* C7: delete(name) raises nothing and changes at most the entry of name:
\* with name absent the book is unchanged; with name present find(name)
\* returns None afterwards and every other key maps to the same Record,
\* with the same phone list.
C7_DeleteFrame ==
  [][last'.op = "delete"
     => /\ last'.err = NoErr
        /\ records' = records
        /\ last'.name \notin DOMAIN data => data' = data
        /\ last'.name \in DOMAIN data =>
             /\ find_result(data', last'.name) = None
             /\ DOMAIN data' = DOMAIN data \ {last'.name}
             /\ \A k \in DOMAIN data' : data'[k] = data[k]]_vars

\* delete(name) directly after add_record stored a Record under name left a
\* book without name and with another Record that has a phone.
C7_Witness ==
  /\ last.op = "delete" /\ last.after = "add_record"
  /\ last.name \notin DOMAIN data
  /\ \E r \in Recs : records[r].born /\ records[r].name = last.name
  /\ \E k \in DOMAIN data : Len(records[data[k]].phones) > 0

\* C8: every key of the AddressBook is the name of the Record stored under
\* it, and no two entries share a name.
C8_KeyIsName ==
  /\ \A k \in DOMAIN data :
       records[data[k]].born /\ records[data[k]].name = k
  /\ \A k1, k2 \in DOMAIN data :
       k1 # k2 => records[data[k1]].name # records[data[k2]].name

\* Two Records are in the book and one of them had a phone edited to an
\* invalid value after it was inserted.
C8_Witness ==
  /\ Cardinality(DOMAIN data) = 2
  /\ last.op = "edit_phone" /\ last.err = NoErr /\ ~ValidPhone(last.a2)
  /\ \E k \in DOMAIN data : data[k] = last.rec

\* C9: a successful edit_phone(old, new) overwrites the first position that
\* holds old and nothing else: same length, every other position as before;
\* [1234567890, 5555555555] edited from 1234567890 to 1112223333 becomes
\* [1112223333, 5555555555].
C9_EditInPlace ==
  [][(last'.op = "edit_phone" /\ last'.err = NoErr)
     => /\ Holds(Pre, last'.a1)
        /\ Len(Post) = Len(Pre)
        /\ Post[FirstAt(Pre, last'.a1)].value = last'.a2
        /\ \A j \in 1..Len(Pre) : j # FirstAt(Pre, last'.a1) => Post[j] = Pre[j]
        /\ (Values(Pre) = <<P1, P2>> /\ last'.a1 = P1 /\ last'.a2 = P3)
             => Values(Post) = <<P3, P2>>]_vars

\* John's phones after edit_phone("1234567890", "1112223333").
C9_Witness ==
  /\ last.op = "edit_phone" /\ last.err = NoErr
  /\ last.a1 = P1 /\ last.a2 = P3
  /\ records[last.rec].name = "John"
  /\ Values(records[last.rec].phones) = <<P3, P2>>

\* C10: remove_phone(v) on a Record that holds no phone equal to v, the
\* empty list included, raises and removes nothing.
C10_RemoveAbsent ==
  [][(/\ last'.op = "remove_phone"
      /\ ~Holds(Pre, last'.a1))
     => /\ last'.err # NoErr
        /\ Post = Pre]_vars

\* remove_phone of a phone the list lacks raised, on a list that is not
\* empty.
C10_Witness ==
  /\ last.op = "remove_phone" /\ last.err = "TypeError"
  /\ Len(records[last.rec].phones) > 0
  /\ ~Holds(records[last.rec].phones, last.a1)

====
